---- MODULE Spec2Model ----
(***************************************************************************)
(* A model of devforfu/blog: the decision-tree-to-Graphviz renderer        *)
(* (trees/plots.py: create_graph, to_hexadecimal, _color_brew) and the     *)
(* point pairing of the CLI wrappers (cli/example_click.py,                *)
(* cli/example_fire.py, cli/subcommands.py).                               *)
(*                                                                         *)
(* Text is a sequence of one-character strings.  Python floats are         *)
(* IEEE-754 binary64 values [s, m, e] = s * m * 2^e with m = <<>> (zero) or *)
(* 2^52 <= m < 2^53; m is a natural number held as little-endian limbs of  *)
(* 15 bits, so that every intermediate product fits TLC's integers.        *)
(***************************************************************************)
EXTENDS Integers, Sequences, FiniteSets, TLC

(***************************************************************************)
(* Natural numbers of arbitrary size (the significands of floats).         *)
(***************************************************************************)
LimbBits == 15

LimbBase == 2^LimbBits

Max(a, b) == IF a >= b THEN a ELSE b

Min(a, b) == IF a <= b THEN a ELSE b

\* a without its leading zero limbs
BNorm(a) ==
    LET nz == {i \in 1..Len(a) : a[i] # 0}
    IN  IF nz = {} THEN <<>>
        ELSE SubSeq(a, 1, CHOOSE i \in nz : \A j \in nz : j <= i)

\* the limbs of an int 0 <= n < 2^31
BFromInt(n) ==
    BNorm(<<n % LimbBase, (n \div LimbBase) % LimbBase,
            n \div (LimbBase * LimbBase)>>)

\* the int of at most two limbs
BToInt(a) ==
    (IF Len(a) >= 1 THEN a[1] ELSE 0) + (IF Len(a) >= 2 THEN LimbBase * a[2] ELSE 0)

Limb(a, i) == IF 1 <= i /\ i <= Len(a) THEN a[i] ELSE 0

RECURSIVE BAddFrom(_, _, _, _)
BAddFrom(a, b, i, carry) ==
    IF i > Max(Len(a), Len(b))
    THEN (IF carry = 0 THEN <<>> ELSE <<carry>>)
    ELSE LET s == Limb(a, i) + Limb(b, i) + carry
         IN  <<s % LimbBase>> \o BAddFrom(a, b, i + 1, s \div LimbBase)

\* a + b
BAdd(a, b) == BAddFrom(a, b, 1, 0)

RECURSIVE BSubFrom(_, _, _, _)
BSubFrom(a, b, i, borrow) ==
    IF i > Len(a) THEN <<>>
    ELSE LET d == Limb(a, i) - Limb(b, i) - borrow
         IN  IF d < 0
             THEN <<d + LimbBase>> \o BSubFrom(a, b, i + 1, 1)
             ELSE <<d>> \o BSubFrom(a, b, i + 1, 0)

\* a - b for a >= b
BSub(a, b) == BNorm(BSubFrom(a, b, 1, 0))

\* -1, 0, 1 as a < b, a = b, a > b (a and b without leading zero limbs)
BCmp(a, b) ==
    IF Len(a) > Len(b) THEN 1
    ELSE IF Len(a) < Len(b) THEN -1
    ELSE LET df == {i \in 1..Len(a) : a[i] # b[i]}
         IN  IF df = {} THEN 0
             ELSE LET top == CHOOSE i \in df : \A j \in df : j <= i
                  IN  IF a[top] > b[top] THEN 1 ELSE -1

RECURSIVE BMulSmallFrom(_, _, _, _)
BMulSmallFrom(a, k, i, carry) ==
    IF i > Len(a)
    THEN (IF carry = 0 THEN <<>> ELSE <<carry>>)
    ELSE LET p == a[i] * k + carry
         IN  <<p % LimbBase>> \o BMulSmallFrom(a, k, i + 1, p \div LimbBase)

\* a * k for 0 <= k < LimbBase
BMulSmall(a, k) == IF k = 0 THEN <<>> ELSE BMulSmallFrom(a, k, 1, 0)

BShlLimbs(a, j) == IF a = <<>> THEN <<>> ELSE [i \in 1..j |-> 0] \o a

\* the sum of the numbers s[1], ..., s[Len(s)]
RECURSIVE BSum(_)
BSum(s) == IF s = <<>> THEN <<>> ELSE BAdd(s[1], BSum(Tail(s)))

\* a * b
BMul(a, b) == BSum([j \in 1..Len(b) |-> BShlLimbs(BMulSmall(a, b[j]), j - 1)])

\* a * 2^k
BShl(a, k) == BShlLimbs(BMulSmall(a, 2^(k % LimbBits)), k \div LimbBits)

\* a \div 2^k
BShr(a, k) ==
    LET w == k \div LimbBits
        t == k % LimbBits
    IN  BNorm(SubSeq([i \in 1..(Len(a) - w) |->
                         (Limb(a, i + w) \div 2^t)
                         + (Limb(a, i + w + 1) % 2^t) * 2^(LimbBits - t)],
                     1, Len(a) - w))

\* a % 2^k
BLowBits(a, k) == BSub(a, BShl(BShr(a, k), k))

\* the number of bits of 0 <= n < LimbBase
SmallBitLen(n) == CHOOSE k \in 0..LimbBits : n < 2^k /\ (k = 0 \/ n >= 2^(k - 1))

BitLen(a) ==
    IF a = <<>> THEN 0
    ELSE (Len(a) - 1) * LimbBits + SmallBitLen(a[Len(a)])

\* One step of long division: the quotient limb of r by b, where b's top
\* limb is at least LimbBase / 2 and r < b * LimbBase.  The estimate from the
\* two top limbs of r and the top limb of b is at most 2 too large.
BDivLimb(r, b) ==
    LET n   == Len(b)
        est == Min((Limb(r, n + 1) * LimbBase + Limb(r, n)) \div b[n],
                   LimbBase - 1)
    IN  CHOOSE c \in Max(est - 2, 0)..est :
            /\ BCmp(BMulSmall(b, c), r) <= 0
            /\ BCmp(BMulSmall(b, c + 1), r) > 0

\* the quotient q extended by the limb c, and what is left of r
BDivTake(q, r, b, c) == [q |-> Append(q, c), r |-> BSub(r, BMulSmall(b, c))]

\* one more limb of the dividend brought down to the remainder r
BDivDown(q, r, b) == BDivTake(q, r, b, BDivLimb(r, b))

BDivStep(prev, limb, b) == BDivDown(prev.q, BNorm(<<limb>> \o prev.r), b)

RECURSIVE BDivFrom(_, _, _)
\* limbs Len(a)..i of the dividend a divided by b: the quotient limbs (most
\* significant first) and the remainder; the top Len(b) - 1 limbs of a are
\* less than b and start as the remainder
BDivFrom(a, b, i) ==
    IF i > Len(a) - Len(b) + 1
    THEN [q |-> <<>>, r |-> BNorm(SubSeq(a, Max(i, 1), Len(a)))]
    ELSE BDivStep(BDivFrom(a, b, i + 1), a[i], b)

\* the quotient limbs least significant first, the remainder scaled back
BDivResult(d, sh) ==
    [q |-> BNorm([i \in 1..Len(d.q) |-> d.q[Len(d.q) + 1 - i]]),
     r |-> BShr(d.r, sh)]

BDivScaled(a, b, sh) == BDivResult(BDivFrom(BShl(a, sh), BShl(b, sh), 1), sh)

\* quotient and remainder of a by b > 0: both are first scaled so that the
\* top limb of b is at least LimbBase / 2
BDivMod(a, b) == BDivScaled(a, b, LimbBits - SmallBitLen(b[Len(b)]))

(***************************************************************************)
(* Python float: IEEE-754 binary64, round to nearest, ties to even.        *)
(***************************************************************************)
Prec == 53

FZero == [s |-> 1, m |-> <<>>, e |-> 0]

\* the float nearest to s * (N + f) * 2^e, where 0 <= f < 1 and f > 0 iff sticky
RoundCarry(s, q, e) ==
    IF BitLen(q) > Prec THEN [s |-> s, m |-> BShr(q, 1), e |-> e + 1]
    ELSE [s |-> s, m |-> q, e |-> e]

\* q is the kept part; c compares the dropped part with one half
RoundUp(s, q, c, e, sticky) ==
    RoundCarry(s,
               IF c = 1 \/ (c = 0 /\ (sticky \/ q[1] % 2 = 1))
               THEN BAdd(q, <<1>>) ELSE q,
               e)

\* N has L bits
RoundBits(s, N, e, sticky, L) ==
    IF L = 0 THEN FZero
    ELSE IF L <= Prec
    THEN [s |-> s, m |-> BShl(N, Prec - L), e |-> e - (Prec - L)]
    ELSE RoundUp(s, BShr(N, L - Prec),
                 BCmp(BLowBits(N, L - Prec), BShl(<<1>>, L - Prec - 1)),
                 e + (L - Prec), sticky)

RoundF(s, N, e, sticky) == RoundBits(s, N, e, sticky, BitLen(N))

\* float(n) for an int n
FromInt(n) ==
    IF n < 0 THEN RoundF(-1, BFromInt(-n), 0, FALSE)
    ELSE RoundF(1, BFromInt(n), 0, FALSE)

FNeg(x) == IF x.m = <<>> THEN x ELSE [x EXCEPT !.s = -x.s]

FAbs(x) == [x EXCEPT !.s = 1]

\* x + y
\* sx * X * 2^e + sy * Y * 2^e
FAddAligned(sx, X, sy, Y, e) ==
    RoundF(IF sx = sy \/ BCmp(X, Y) >= 0 THEN sx ELSE sy,
           IF sx = sy THEN BAdd(X, Y)
           ELSE IF BCmp(X, Y) >= 0 THEN BSub(X, Y)
           ELSE BSub(Y, X),
           e, FALSE)

FAdd(x, y) ==
    IF x.m = <<>> THEN y
    ELSE IF y.m = <<>> THEN x
    ELSE FAddAligned(x.s, BShl(x.m, x.e - Min(x.e, y.e)),
                     y.s, BShl(y.m, y.e - Min(x.e, y.e)), Min(x.e, y.e))

\* x - y
FSub(x, y) == FAdd(x, FNeg(y))

\* x * y
FMul(x, y) ==
    IF x.m = <<>> \/ y.m = <<>> THEN FZero
    ELSE RoundF(x.s * y.s, BMul(x.m, y.m), x.e + y.e, FALSE)

\* x / y for y # 0
FDivRound(s, d, e) == RoundF(s, d.q, e, d.r # <<>>)

FDiv(x, y) ==
    IF x.m = <<>> THEN FZero
    ELSE FDivRound(x.s * y.s, BDivMod(BShl(x.m, Prec + 3), y.m),
                   x.e - y.e - (Prec + 3))

\* x % y for x >= 0, y > 0 (exact)
FMod(x, y) ==
    IF x.m = <<>> THEN FZero
    ELSE RoundF(1, BDivMod(BShl(x.m, x.e - Min(x.e, y.e)),
                           BShl(y.m, y.e - Min(x.e, y.e))).r,
                Min(x.e, y.e), FALSE)

\* int(x): truncation toward zero
FTrunc(x) ==
    IF x.m = <<>> THEN 0
    ELSE x.s * BToInt(IF x.e >= 0 THEN BShl(x.m, x.e) ELSE BShr(x.m, -x.e))

\* ceil(x) for x >= 0
FCeil(x) ==
    FTrunc(x) + (IF x.m = <<>> \/ x.e >= 0 THEN 0
                 ELSE IF BLowBits(x.m, -x.e) = <<>> THEN 0 ELSE 1)

(***************************************************************************)
(* Python values: the outcome of an expression is a value or an exception.  *)
(***************************************************************************)
None == "None"

Ok(v) == [ok |-> TRUE, v |-> v]

Err(e) == [ok |-> FALSE, exc |-> e]

\* a faulty list[i]: every negative index is refused
getitem_no_wrap(list, i) ==
    IF 0 <= i /\ i < Len(list) THEN Ok(list[i + 1]) ELSE Err("IndexError")

\* list[i]: 0-based; an index -Len(list) <= i < 0 counts from the end
getitem(list, i) ==
    IF 0 <= i /\ i < Len(list) THEN Ok(list[i + 1])
    ELSE IF -Len(list) <= i /\ i < 0 THEN Ok(list[Len(list) + i + 1])
    ELSE Err("IndexError")

(***************************************************************************)
(* _color_brew (trees/plots.py:103-142).                                   *)
(***************************************************************************)
\* np.arange(start, stop, step) for ints start, stop and a float step:
\* ceil((stop - start) / step) elements; the first is start, the second
\* start + step, and element i >= 2 is start + i * delta, where delta is
\* the difference of the first two.
arange_fill(length, first, next) ==
    [j \in 1..Max(length, 0) |->
        IF j = 1 THEN first
        ELSE IF j = 2 THEN next
        ELSE FAdd(first, FMul(FromInt(j - 1), FSub(next, first)))]

arange_from(first, width, step) ==
    arange_fill(FCeil(FDiv(width, step)), first, FAdd(first, step))

arange(start, stop, step) ==
    arange_from(FromInt(start), FromInt(stop - start), step)

\* ndarray.astype(int): truncation of every element
astype_int(a) == [j \in 1..Len(a) |-> FTrunc(a[j])]

\* the hues the loop of line 123 runs over
brew_hues(n) == astype_int(arange(25, 385, FDiv(FromInt(360), FromInt(n))))

\* s, v = 0.75, 0.9 (line 119)
brew_s == FDiv(FromInt(75), FromInt(100))

brew_v == FDiv(FromInt(9), FromInt(10))

\* c = s * v (line 120)
chroma(s, v) == FMul(s, v)

\* m = v - c (line 121)
value_shift(v, c) == FSub(v, c)

\* x = c * (1 - abs((h_bar % 2) - 1)) (line 126)
brew_x(c, h_bar) ==
    FMul(c, FSub(FromInt(1), FAbs(FSub(FMod(h_bar, FromInt(2)), FromInt(1)))))

\* the table of lines 128-134 for chroma c and intermediate x; 0-based index
brew_table(c, x) ==
    << <<c, x, FZero>>, <<x, c, FZero>>, <<FZero, c, x>>, <<FZero, x, c>>,
       <<x, FZero, c>>, <<c, FZero, x>>, <<c, x, FZero>> >>

\* lines 137-139: r, g, b shifted by m and scaled to 0..255
brew_shift(rgb, m) ==
    IF ~rgb.ok THEN rgb
    ELSE Ok([ch \in 1..3 |-> FTrunc(FMul(FromInt(255), FAdd(rgb.v[ch], m)))])

\* lines 126-139 for h_bar; line 135 is rgb[int(h_bar)]
brew_rgb(h_bar, c, m) ==
    brew_shift(getitem(brew_table(c, brew_x(c, h_bar)), FTrunc(h_bar)), m)

\* one iteration of the loop (lines 125-139): the color of hue h
brew_color(h, c, m) == brew_rgb(FDiv(FromInt(h), FromInt(60)), c, m)

\* the segment index int(h_bar) of hue h
brew_segment(h) == FTrunc(FDiv(FromInt(h), FromInt(60)))

\* the list the loop builds, or the exception an iteration raised
brew_list(rgbs) ==
    IF \E j \in 1..Len(rgbs) : ~rgbs[j].ok THEN Err("IndexError")
    ELSE Ok([j \in 1..Len(rgbs) |-> rgbs[j].v])

brew_loop(hs, v, c) ==
    brew_list([j \in 1..Len(hs) |-> brew_color(hs[j], c, value_shift(v, c))])

_color_brew(n) == brew_loop(brew_hues(n), brew_v, chroma(brew_s, brew_v))

(***************************************************************************)
(* Text.                                                                    *)
(***************************************************************************)
\* ''.join(parts)
RECURSIVE join(_)
join(parts) == IF parts = <<>> THEN <<>> ELSE parts[1] \o join(Tail(parts))

Digits == <<"0", "1", "2", "3", "4", "5", "6", "7", "8", "9">>

\* str(n) for an int n
RECURSIVE str_nat(_)
str_nat(n) ==
    IF n < 10 THEN <<Digits[n + 1]>>
    ELSE Append(str_nat(n \div 10), Digits[(n % 10) + 1])

str_int(n) == IF n < 0 THEN <<"-">> \o str_nat(-n) ELSE str_nat(n)

\* the integer nearest to |x| * 100, ties to even (printf rounds the exact
\* binary value)
hundredths(x) ==
    LET N == BMulSmall(x.m, 100)
    IN  IF x.m = <<>> THEN 0
        ELSE IF x.e >= 0 THEN BToInt(BShl(N, x.e))
        ELSE LET q == BToInt(BShr(N, -x.e))
                 c == BCmp(BLowBits(N, -x.e), BShl(<<1>>, -x.e - 1))
             IN  IF c = 1 \/ (c = 0 /\ q % 2 = 1) THEN q + 1 ELSE q

\* '%2.2f' % x
format_hundredths(s, H) ==
    (IF s < 0 THEN <<"-">> ELSE <<>>)
    \o str_nat(H \div 100)
    \o <<".", Digits[((H \div 10) % 10) + 1], Digits[(H % 10) + 1]>>

format_2f(x) == format_hundredths(x.s, hundredths(x))

(***************************************************************************)
(* to_hexadecimal (trees/plots.py:96-100).                                  *)
(***************************************************************************)
hex_codes ==
    <<"0", "1", "2", "3", "4", "5", "6", "7", "8", "9",
      "a", "b", "c", "d", "e", "f">>

\* a faulty to_hexadecimal: the low nibble is written first
to_hexadecimal_swapped(values) ==
    LET hi == [j \in 1..Len(values) |-> getitem(hex_codes, values[j] \div 16)]
        lo == [j \in 1..Len(values) |-> getitem(hex_codes, values[j] % 16)]
    IN  IF \E j \in 1..Len(values) : ~hi[j].ok THEN Err("IndexError")
        ELSE Ok(<<"#">> \o [j \in 1..(2 * Len(values)) |->
                              IF j % 2 = 1 THEN lo[(j + 1) \div 2].v
                              ELSE hi[j \div 2].v])

to_hexadecimal(values) ==
    LET hi == [j \in 1..Len(values) |-> getitem(hex_codes, values[j] \div 16)]
        lo == [j \in 1..Len(values) |-> getitem(hex_codes, values[j] % 16)]
    IN  IF \E j \in 1..Len(values) : ~hi[j].ok THEN Err("IndexError")
        ELSE Ok(<<"#">> \o [j \in 1..(2 * Len(values)) |->
                              IF j % 2 = 1 THEN hi[(j + 1) \div 2].v
                              ELSE lo[j \div 2].v])

(***************************************************************************)
(* Decision trees.  A tree is a function from positions to nodes: the root  *)
(* is at <<>>, the left child of the node at p at p \o <<"L">>, the right    *)
(* child at p \o <<"R">>.  A node has is_leaf, feature, value (a class       *)
(* index in a leaf, the float threshold otherwise), gini and counts, a      *)
(* Counter held as <<class, count>> pairs in insertion order.               *)
(***************************************************************************)
\* a faulty left: the right child is taken for the left one
left_as_right(t, p) ==
    IF Append(p, "R") \in DOMAIN t THEN Append(p, "R") ELSE None

left(t, p) == IF Append(p, "L") \in DOMAIN t THEN Append(p, "L") ELSE None

right(t, p) == IF Append(p, "R") \in DOMAIN t THEN Append(p, "R") ELSE None

\* sum(counts.values())
RECURSIVE sum_values(_)
sum_values(counts) ==
    IF counts = <<>> THEN 0 ELSE counts[1][2] + sum_values(Tail(counts))

\* a faulty most_common(1): among equal counts the last pair wins
most_common_last(counts) ==
    IF counts = <<>> THEN <<>>
    ELSE LET best == CHOOSE i \in DOMAIN counts :
                         /\ \A j \in DOMAIN counts : counts[j][2] <= counts[i][2]
                         /\ \A j \in (i + 1)..Len(counts) : counts[j][2] < counts[i][2]
         IN  <<counts[best]>>

\* counts.most_common(1): the first pair, in insertion order, of greatest
\* count; no pair for an empty Counter
most_common(counts) ==
    IF counts = <<>> THEN <<>>
    ELSE LET best == CHOOSE i \in DOMAIN counts :
                         /\ \A j \in DOMAIN counts : counts[j][2] <= counts[i][2]
                         /\ \A j \in 1..(i - 1) : counts[j][2] < counts[i][2]
         IN  <<counts[best]>>

(***************************************************************************)
(* The text create_graph writes (trees/plots.py:16-19, 30, 33, 58-61, 84-88) *)
(***************************************************************************)
digraph_line ==
    <<"d", "i", "g", "r", "a", "p", "h", " ", "T", "r", "e", "e", " ", "{",
      "\n">>

node_line ==
    <<"n", "o", "d", "e", " ", "[", "s", "h", "a", "p", "e", "=", "\"",
      "b", "o", "x", "\"", ",", " ", "s", "t", "y", "l", "e", "=", "\"",
      "f", "i", "l", "l", "e", "d", ",", " ", "r", "o", "u", "n", "d", "e",
      "d", "\"", ",", " ", "c", "o", "l", "o", "r", "=", "\"", "b", "l",
      "a", "c", "k", "\"", "]", ";", "\n">>

label_open == <<" ", "[", "l", "a", "b", "e", "l", "=", "\"">>

fill_open ==
    <<"\"", ",", " ", "f", "i", "l", "l", "c", "o", "l", "o", "r", "=",
      "\"">>

stmt_close == <<"\"", "]", ";", "\n">>

arrow == <<" ", "-", ">", " ">>

edge_open == <<" ", "[", "l", "a", "b", "e", "l", "=">>

edge_close ==
    <<",", " ", "l", "a", "b", "e", "l", "d", "i", "s", "t", "a", "n", "c",
      "e", "=", "2", ".", "5", ",", " ", "l", "a", "b", "e", "l", "a", "n",
      "g", "l", "e", "=", "4", "5", "]", ";", "\n">>

samples_prefix == <<"s", "a", "m", "p", "l", "e", "s", ":", " ">>

gini_prefix == <<"g", "i", "n", "i", ":", " ">>

ratio_prefix == <<"r", "a", "t", "i", "o", ":", " ">>

le_infix == <<" ", "<", "=", " ">>

yes == <<"y", "e", "s">>

no == <<"n", "o">>

\* '\n'.join(lines)
RECURSIVE join_lines(_)
join_lines(lines) ==
    IF Len(lines) = 1 THEN lines[1]
    ELSE lines[1] \o <<"\n">> \o join_lines(Tail(lines))

node_to_str(node, feature_names, class_names) ==
    IF node.is_leaf THEN getitem(class_names, node.value)
    ELSE LET name  == getitem(feature_names, node.feature)
             total == sum_values(node.counts)
             mc    == most_common(node.counts)
         IN  IF ~name.ok THEN name
             ELSE IF mc = <<>> THEN Err("ValueError")
             ELSE IF total = 0 THEN Err("ZeroDivisionError")
             ELSE LET num_of_samples == mc[1][2]
                      ratio == FDiv(FromInt(num_of_samples), FromInt(total))
                  IN  Ok(join_lines(
                         <<samples_prefix \o str_int(total),
                           gini_prefix \o format_2f(node.gini),
                           ratio_prefix \o format_2f(ratio),
                           name.v \o le_infix \o format_2f(node.value)>>))

get_node_color(node, colors) ==
    IF node.is_leaf
    THEN LET rgb == getitem(colors, node.value)
         IN  IF ~rgb.ok THEN rgb ELSE to_hexadecimal(rgb.v)
    ELSE LET mc    == most_common(node.counts)
             total == sum_values(node.counts)
         IN  IF mc = <<>> THEN Err("ValueError")
             ELSE LET cls   == mc[1][1]
                      count == mc[1][2]
                      rgb   == getitem(colors, cls)
                  IN  IF ~rgb.ok THEN rgb
                      ELSE IF total = 0 THEN Err("ZeroDivisionError")
                      ELSE LET alpha == FTrunc(FDiv(FromInt(255 * count),
                                                    FromInt(total)))
                               rgba  == rgb.v \o <<alpha>>
                           IN  to_hexadecimal(rgba)

\* what fp.write receives: a node statement (line 30), an edge statement
\* (lines 33, 37, 41), the two header lines and the closing brace.  The field
\* at is the position of the node the statement was written for; it is
\* history and no part of the text.
node_stmt(p, uid, label, color) ==
    [kind |-> "node", at |-> p, uid |-> uid, label |-> label, fillcolor |-> color]

edge_stmt(p, side, uid, child_uid, label) ==
    [kind |-> "edge", at |-> p, side |-> side, src |-> uid, dst |-> child_uid,
     label |-> label]

text_of(stmt) ==
    IF stmt.kind = "digraph" THEN digraph_line
    ELSE IF stmt.kind = "style" THEN node_line
    ELSE IF stmt.kind = "node"
    THEN stmt.uid \o label_open \o stmt.label \o fill_open \o stmt.fillcolor
         \o stmt_close
    ELSE IF stmt.kind = "edge"
    THEN stmt.src \o arrow \o stmt.dst \o edge_open \o stmt.label \o edge_close
    ELSE <<"}">>

\* the text of everything written so far
document(buf) == join([i \in 1..Len(buf) |-> text_of(buf[i])])

(***************************************************************************)
(* The calls of create_graph that are explored.                             *)
(***************************************************************************)
MaxNodes == 3

ClassNames == << <<"A">>, <<"B">> >>

\* a character utf-8 has no encoding for (a lone surrogate)
surrogate == "\\udc80"

FeatureNames == << <<"x", "0">>, <<"x", surrogate>> >>

\* node.gini = 0.375 and the threshold node.value = 2.5 of internal nodes
Gini == FDiv(FromInt(3), FromInt(8))

Threshold == FDiv(FromInt(5), FromInt(2))

leaf(v) ==
    [is_leaf |-> TRUE, feature |-> 0, value |-> v, gini |-> FZero,
     counts |-> <<>>]

internal(f, counts) ==
    [is_leaf |-> FALSE, feature |-> f, value |-> Threshold, gini |-> Gini,
     counts |-> counts]

Sound == internal(0, << <<0, 3>>, <<1, 1>> >>)

\* the nodes every position of a tree is filled from
BasicKinds == {leaf(0), Sound}

\* nodes whose label or color lookup wraps, fails, or has a tie
LookupKinds ==
    {leaf(1), leaf(-1), leaf(2), leaf(-3),
     internal(1, << <<1, 1>>, <<0, 3>> >>),
     internal(-1, << <<1, 2>>, <<0, 2>> >>),
     internal(2, << <<0, 3>>, <<1, 1>> >>),
     internal(-3, << <<0, 3>>, <<1, 1>> >>),
     internal(0, << <<2, 1>> >>),
     internal(0, << <<-1, 1>>, <<0, 1>> >>),
     internal(0, << <<-3, 2>>, <<0, 1>> >>),
     internal(0, <<>>),
     internal(0, << <<0, 0>> >>)}

Positions == UNION {[1..d -> {"L", "R"}] : d \in 0..(MaxNodes - 1)}

parent(p) == SubSeq(p, 1, Len(p) - 1)

Shapes ==
    {S \in SUBSET Positions :
        /\ <<>> \in S
        /\ Cardinality(S) <= MaxNodes
        /\ \A p \in S : p # <<>> => parent(p) \in S}

Trees ==
    UNION {[S -> BasicKinds] : S \in Shapes}
    \cup {[p \in {<<>>} |-> k] : k \in LookupKinds}
    \cup {[p \in {<<>>, <<sd>>} |-> IF p = <<>> THEN Sound ELSE k] :
             sd \in {"L", "R"}, k \in LookupKinds}

\* node_id (trees/plots.py:9-11): size digits drawn at random.  Of the 10^20
\* outcomes as many are kept as a tree has nodes, so that the IDs of a
\* document can all differ and can collide.
IdSize == 20

id_of(d) == [i \in 1..IdSize |-> Digits[d]]

IdPool == {id_of(d) : d \in 1..MaxNodes}

\* the IDs of the node statements written to f
used_ids(f) ==
    {f.buf[i].uid : i \in {j \in DOMAIN f.buf : f.buf[j].kind = "node"}}

\* what node_id() returns, up to a renaming of the IDs that are not in the
\* document yet: an ID already used, or the first one that is not
node_id(f) ==
    {uid \in IdPool :
        \E k \in 1..MaxNodes :
            uid = id_of(k) /\ \A e \in 1..(k - 1) : id_of(e) \in used_ids(f)}

OutputPath == <<"o", "u", "t", ".", "d", "o", "t">>

\* the file at OutputPath before the call: absent, or present with content
FsStates ==
    {[exists |-> FALSE, content |-> <<>>],
     [exists |-> TRUE, content |-> <<"o", "l", "d">>]}

(***************************************************************************)
(* State.                                                                   *)
(***************************************************************************)
VARIABLES
    tree, feature_names, class_names, output_file,  \* arguments of create_graph
    fs,           \* the file at output_file: [exists, content]
    colors,       \* the palette (line 22)
    opened_file,  \* line 77
    fp,           \* the stream: [kind, buf, closed]; kind "unbound" before line 80
    pc,           \* the line create_graph is at
    stack,        \* the activations of create: [node, uid, pc]
    ret,          \* the value the last return of create gave
    outcome,      \* how the call ended: [kind |-> "return", value] or
                  \* [kind |-> "raise", exc]; [kind |-> "running"] before
    n, hues, color_list, brew_pc,   \* a call of _color_brew
    values, hex_result, hex_pc,     \* a call of to_hexadecimal
    cli_pc,                         \* the CLI function called
    points, plotted,                \* a call of Plotter.scatter
    value, parsed                   \* a call of list_of_points

args == <<tree, feature_names, class_names, output_file>>

graph_vars == <<args, fs, colors, opened_file, fp, pc, stack, ret, outcome>>

brew_vars == <<n, hues, color_list, brew_pc>>

hex_vars == <<values, hex_result, hex_pc>>

cli_vars == <<cli_pc, points, plotted, value, parsed>>

vars == <<graph_vars, brew_vars, hex_vars, cli_vars>>

Running == [kind |-> "running"]

GraphIdle ==
    /\ tree = None /\ feature_names = None /\ class_names = None
    /\ output_file = None /\ fs = None /\ colors = None /\ opened_file = None
    /\ fp = None /\ pc = None /\ stack = None /\ ret = None /\ outcome = None

BrewIdle == n = None /\ hues = None /\ color_list = None /\ brew_pc = None

HexIdle == values = None /\ hex_result = None /\ hex_pc = None

CliIdle ==
    /\ cli_pc = None
    /\ points = None /\ plotted = None /\ value = None /\ parsed = None

(***************************************************************************)
(* create_graph (trees/plots.py:14-93).                                     *)
(***************************************************************************)
\* the paths a tree is written to: the largest trees to none
OutputFiles(t) ==
    IF Cardinality(DOMAIN t) < MaxNodes THEN {None, OutputPath} ELSE {None}

Init ==
    /\ tree \in Trees
    /\ feature_names = FeatureNames
    /\ class_names = ClassNames
    /\ output_file \in OutputFiles(tree)
    /\ fs \in FsStates
    /\ colors = <<>>
    /\ opened_file = FALSE
    /\ fp = [kind |-> "unbound", buf |-> <<>>, closed |-> FALSE]
    /\ pc = "setup"
    /\ stack = <<>>
    /\ ret = None
    /\ outcome = Running
    /\ BrewIdle /\ HexIdle /\ CliIdle

top == stack[Len(stack)]

frame(p) == [node |-> p, uid |-> None, pc |-> "enter"]

\* the stack with the running activation at position pos
goto(pos) == [stack EXCEPT ![Len(stack)].pc = pos]

\* a faulty line 32: is_leaf is not looked at
after_node_descend(node) == "left"

\* line 32: where create goes after the node statement
after_node(node) == IF node.is_leaf THEN "return" ELSE "left"

\* fp.write(s) on a stream
write(f, stmt) == [f EXCEPT !.buf = Append(@, stmt)]

\* whether fp.write takes the text: a StringIO takes any, the stream of
\* open(..., encoding='utf-8') raises UnicodeEncodeError for a text it cannot
\* encode.  What it takes it keeps in its buffer: the documents of the trees
\* here are shorter than the buffer, and the file is written by close().
accepts(f, stmt) ==
    f.kind = "StringIO" \/ \A i \in DOMAIN text_of(stmt) : text_of(stmt)[i] # surrogate

\* an exception leaves the try block for the finally clause
Raise(e) == outcome' = [kind |-> "raise", exc |-> e] /\ pc' = "finally"

\* lines 21-22, 77; an exception of line 22 is outside the try block
Setup ==
    /\ pc = "setup"
    /\ IF _color_brew(Len(class_names)).ok
       THEN /\ colors' = _color_brew(Len(class_names)).v
            /\ opened_file' = FALSE
            /\ pc' = "open"
            /\ UNCHANGED outcome
       ELSE /\ outcome' = [kind |-> "raise", exc |-> "IndexError"]
            /\ pc' = "done"
            /\ UNCHANGED <<colors, opened_file>>
    /\ UNCHANGED <<args, fs, fp, stack, ret, brew_vars, hex_vars, cli_vars>>

\* a faulty open: the file is neither created nor truncated at line 82
OpenOutput_lazy ==
    /\ pc = "open"
    /\ IF output_file = None
       THEN /\ fp' = [kind |-> "StringIO", buf |-> <<>>, closed |-> FALSE]
            /\ UNCHANGED opened_file
       ELSE /\ fp' = [kind |-> "file", buf |-> <<>>, closed |-> FALSE]
            /\ opened_file' = TRUE
    /\ pc' = "digraph"
    /\ UNCHANGED <<args, fs, colors, stack, ret, outcome, brew_vars, hex_vars, cli_vars>>

\* lines 79-83: open(output_file, 'w') creates or truncates the file, or fails
OpenOutput ==
    /\ pc = "open"
    /\ IF output_file = None
       THEN /\ fp' = [kind |-> "StringIO", buf |-> <<>>, closed |-> FALSE]
            /\ pc' = "digraph"
            /\ UNCHANGED <<fs, opened_file, outcome>>
       ELSE \E ok \in BOOLEAN :
               IF ok
               THEN /\ fs' = [exists |-> TRUE, content |-> <<>>]
                    /\ fp' = [kind |-> "file", buf |-> <<>>, closed |-> FALSE]
                    /\ opened_file' = TRUE
                    /\ pc' = "digraph"
                    /\ UNCHANGED outcome
               ELSE /\ Raise("OSError")
                    /\ UNCHANGED <<fs, fp, opened_file>>
    /\ UNCHANGED <<args, colors, stack, ret, brew_vars, hex_vars, cli_vars>>

\* line 85
WriteDigraph ==
    /\ pc = "digraph"
    /\ fp' = write(fp, [kind |-> "digraph"]) /\ pc' = "style"
    /\ UNCHANGED outcome
    /\ UNCHANGED <<args, fs, colors, opened_file, stack, ret, brew_vars, hex_vars, cli_vars>>

\* lines 84, 86
WriteStyle ==
    /\ pc = "style"
    /\ fp' = write(fp, [kind |-> "style"]) /\ pc' = "call"
    /\ UNCHANGED outcome
    /\ UNCHANGED <<args, fs, colors, opened_file, stack, ret, brew_vars, hex_vars, cli_vars>>

\* line 87: create(tree, fp) is entered
CallCreate ==
    /\ pc = "call"
    /\ stack' = <<frame(<<>>)>>
    /\ pc' = "create"
    /\ UNCHANGED <<args, fs, colors, opened_file, fp, ret, outcome, brew_vars, hex_vars, cli_vars>>

\* lines 26-32: the ID, the label, the color and the node statement
CreateNode ==
    /\ pc = "create" /\ top.pc = "enter"
    /\ LET node  == tree[top.node]
           label == node_to_str(node, feature_names, class_names)
           color == get_node_color(node, colors)
       IN  \E uid \in node_id(fp) :
              IF ~label.ok THEN Raise(label.exc) /\ UNCHANGED <<fp, stack>>
              ELSE IF ~color.ok THEN Raise(color.exc) /\ UNCHANGED <<fp, stack>>
              ELSE IF ~accepts(fp, node_stmt(top.node, uid, label.v, color.v))
              THEN Raise("UnicodeEncodeError") /\ UNCHANGED <<fp, stack>>
              ELSE /\ fp' = write(fp, node_stmt(top.node, uid, label.v, color.v))
                   /\ stack' = [stack EXCEPT ![Len(stack)] =
                                  [@ EXCEPT !.uid = uid, !.pc = after_node(node)]]
                   /\ UNCHANGED <<pc, outcome>>
    /\ UNCHANGED <<args, fs, colors, opened_file, ret, brew_vars, hex_vars, cli_vars>>

\* lines 35-36: the left child, if there is one, is created
VisitLeft ==
    /\ pc = "create" /\ top.pc = "left"
    /\ stack' = IF left(tree, top.node) # None
                THEN Append(goto("left_edge"), frame(left(tree, top.node)))
                ELSE goto("right")
    /\ UNCHANGED <<args, fs, colors, opened_file, fp, pc, ret, outcome, brew_vars, hex_vars, cli_vars>>

\* lines 36-37: l_uid is what the call returned; the "yes" edge
WriteLeftEdge ==
    /\ pc = "create" /\ top.pc = "left_edge"
    /\ fp' = write(fp, edge_stmt(top.node, "L", top.uid, ret, yes))
    /\ stack' = goto("right")
    /\ UNCHANGED <<pc, outcome>>
    /\ UNCHANGED <<args, fs, colors, opened_file, ret, brew_vars, hex_vars, cli_vars>>

\* lines 39-40
VisitRight ==
    /\ pc = "create" /\ top.pc = "right"
    /\ stack' = IF right(tree, top.node) # None
                THEN Append(goto("right_edge"), frame(right(tree, top.node)))
                ELSE goto("return")
    /\ UNCHANGED <<args, fs, colors, opened_file, fp, pc, ret, outcome, brew_vars, hex_vars, cli_vars>>

\* lines 40-41
WriteRightEdge ==
    /\ pc = "create" /\ top.pc = "right_edge"
    /\ fp' = write(fp, edge_stmt(top.node, "R", top.uid, ret, no))
    /\ stack' = goto("return")
    /\ UNCHANGED <<pc, outcome>>
    /\ UNCHANGED <<args, fs, colors, opened_file, ret, brew_vars, hex_vars, cli_vars>>

\* line 43: return uid, to the caller's edge statement or to line 88
Return ==
    /\ pc = "create" /\ top.pc = "return"
    /\ ret' = top.uid
    /\ stack' = SubSeq(stack, 1, Len(stack) - 1)
    /\ pc' = IF Len(stack) = 1 THEN "brace" ELSE "create"
    /\ UNCHANGED <<args, fs, colors, opened_file, fp, outcome, brew_vars, hex_vars, cli_vars>>

\* line 88
WriteBrace ==
    /\ pc = "brace"
    /\ fp' = write(fp, [kind |-> "brace"]) /\ pc' = "getvalue"
    /\ UNCHANGED outcome
    /\ UNCHANGED <<args, fs, colors, opened_file, stack, ret, brew_vars, hex_vars, cli_vars>>

\* line 89: a StringIO has getvalue; the object open() returns has not
GetValue ==
    /\ pc = "getvalue"
    /\ IF fp.kind = "StringIO"
       THEN outcome' = [kind |-> "return", value |-> document(fp.buf)]
            /\ pc' = "finally"
       ELSE Raise("AttributeError")
    /\ UNCHANGED <<args, fs, colors, opened_file, fp, stack, ret, brew_vars, hex_vars, cli_vars>>

\* a faulty finally clause: the file is left open
Finally_leaks ==
    /\ pc = "finally"
    /\ pc' = "done"
    /\ UNCHANGED <<args, fs, colors, opened_file, fp, stack, ret, outcome, brew_vars, hex_vars, cli_vars>>

\* lines 91-93: close() flushes what was written into the file; when the
\* flush fails the stream is closed all the same, only a part of the text,
\* from its start, has reached the file, and OSError replaces what the try
\* block returned or raised
Finally ==
    /\ pc = "finally"
    /\ IF opened_file
       THEN LET text == document(fp.buf) IN
            \E flushed \in 0..Len(text) : \E ok \in BOOLEAN :
               /\ ok => flushed = Len(text)
               /\ fp' = [fp EXCEPT !.closed = TRUE]
               /\ fs' = [fs EXCEPT !.content = SubSeq(text, 1, flushed)]
               /\ IF ok THEN UNCHANGED outcome
                  ELSE outcome' = [kind |-> "raise", exc |-> "OSError"]
       ELSE UNCHANGED <<fp, fs, outcome>>
    /\ pc' = "done"
    /\ UNCHANGED <<args, colors, opened_file, stack, ret, brew_vars, hex_vars, cli_vars>>

Next ==
    \/ Setup \/ OpenOutput \/ WriteDigraph \/ WriteStyle \/ CallCreate
    \/ CreateNode \/ VisitLeft \/ WriteLeftEdge \/ VisitRight \/ WriteRightEdge
    \/ Return \/ WriteBrace \/ GetValue \/ Finally

Spec == Init /\ [][Next]_vars

(***************************************************************************)
(* A call of _color_brew(n) (trees/plots.py:103-142), one loop iteration    *)
(* at a time.                                                               *)
(***************************************************************************)
MaxBrewN == 12

\* numbers of colors beyond MaxBrewN whose step 360. / n is not exact enough
BrewExtra == {21, 161}

BrewInit ==
    /\ n \in (1..MaxBrewN) \cup BrewExtra
    /\ hues = None /\ color_list = None
    /\ brew_pc = "start"
    /\ GraphIdle /\ HexIdle /\ CliIdle

\* lines 116-123: the empty list, and the array the loop runs over
BrewBegin ==
    /\ brew_pc = "start"
    /\ color_list' = <<>>
    /\ hues' = brew_hues(n)
    /\ brew_pc' = "loop"
    /\ UNCHANGED <<n, graph_vars, hex_vars, cli_vars>>

\* lines 123-140: the next hue's color is appended
BrewIter ==
    /\ brew_pc = "loop" /\ Len(color_list) < Len(hues)
    /\ LET rgb == brew_color(hues[Len(color_list) + 1],
                             chroma(brew_s, brew_v),
                             value_shift(brew_v, chroma(brew_s, brew_v)))
       IN  IF rgb.ok
           THEN color_list' = Append(color_list, rgb.v) /\ UNCHANGED brew_pc
           ELSE brew_pc' = "IndexError" /\ UNCHANGED color_list
    /\ UNCHANGED <<n, hues, graph_vars, hex_vars, cli_vars>>

\* line 142
BrewReturn ==
    /\ brew_pc = "loop" /\ Len(color_list) = Len(hues)
    /\ brew_pc' = "done"
    /\ UNCHANGED <<n, hues, color_list, graph_vars, hex_vars, cli_vars>>

BrewNext == BrewBegin \/ BrewIter \/ BrewReturn

SpecBrew == BrewInit /\ [][BrewNext]_vars

(***************************************************************************)
(* A call of to_hexadecimal(values).                                        *)
(***************************************************************************)
MaxChannels == 4

HexSamples == {0, 9, 10, 128, 255}

\* channel values outside 0..255
HexOutside == {-1, 256}

HexInputs ==
    UNION {[1..k -> HexSamples] : k \in 0..MaxChannels}
    \cup {<<c>> : c \in (0..255) \cup HexOutside}

HexInit ==
    /\ values \in HexInputs
    /\ hex_result = None
    /\ hex_pc = "call"
    /\ GraphIdle /\ BrewIdle /\ CliIdle

ToHexadecimal ==
    /\ hex_pc = "call"
    /\ hex_result' = to_hexadecimal(values)
    /\ hex_pc' = "done"
    /\ UNCHANGED <<values, graph_vars, brew_vars, cli_vars>>

HexNext == ToHexadecimal

SpecHex == HexInit /\ [][HexNext]_vars

(***************************************************************************)
(* Plotter.scatter (cli/example_click.py:19-27, cli/example_fire.py:18-26)  *)
(* and list_of_points (cli/subcommands.py:97-109).                          *)
(***************************************************************************)
\* seq[start::2] for a 0-based start <= Len(seq)
every_second(seq, start) ==
    [i \in 1..((Len(seq) - start + 1) \div 2) |-> seq[start + 2 * i - 1]]

\* points[:n] for n <= Len(points), then xs, ys = points[::2], points[1::2]
pairs(pts) == [xs |-> every_second(pts, 0), ys |-> every_second(pts, 1)]

even(k) == IF k % 2 # 0 THEN k - 1 ELSE k

\* a faulty scatter: of an odd number of values the first is dropped
scatter_drop_first(pts) ==
    pairs(SubSeq(pts, 1 + Len(pts) - even(Len(pts)), Len(pts)))

\* what scatter hands to ax.scatter
scatter(pts) == pairs(SubSeq(pts, 1, even(Len(pts))))

\* the pieces of s between the positions seps (increasing, 0 and Len(s) + 1
\* at the ends)
pieces(s, seps) ==
    [j \in 1..(Len(seps) - 1) |-> SubSeq(s, seps[j] + 1, seps[j + 1] - 1)]

\* the members of the set S of ints in increasing order
sorted(S) ==
    [j \in 1..Cardinality(S) |->
        CHOOSE i \in S : Cardinality({k \in S : k < i}) = j - 1]

\* s.split(sep) for a one-character sep
split(s, sep) ==
    pieces(s, sorted({0, Len(s) + 1} \cup {i \in 1..Len(s) : s[i] = sep}))

\* the digits of t without its sign and its point
digits_of(t) == SelectSeq(t, LAMBDA ch : ch \in {"0", "1", "2", "3", "4", "5", "6", "7", "8", "9"})

\* whether float(t) accepts t, for t over digits, "." , "-" , "+" and
\* characters float rejects: an optional sign, then digits with at most one
\* point among them and at least one digit
is_float(t) ==
    /\ digits_of(t) # <<>>
    /\ \A i \in 1..Len(t) :
          \/ t[i] \in {"0", "1", "2", "3", "4", "5", "6", "7", "8", "9"}
          \/ t[i] \in {"-", "+"} /\ i = 1
          \/ t[i] = "." /\ \A j \in 1..Len(t) : t[j] = "." => j = i

RECURSIVE int_of(_)
\* the int a sequence of digits denotes
int_of(ds) ==
    IF ds = <<>> THEN 0
    ELSE 10 * int_of(SubSeq(ds, 1, Len(ds) - 1))
         + CHOOSE d \in 0..9 : Digits[d + 1] = ds[Len(ds)]

\* the number of digits after the point
fraction_digits(t) ==
    IF \E i \in 1..Len(t) : t[i] = "."
    THEN Len(t) - CHOOSE i \in 1..Len(t) : t[i] = "."
    ELSE 0

\* float(t) for an accepted t: the float nearest to the decimal
float_of(t) ==
    FDiv(FromInt((IF t[1] = "-" THEN -1 ELSE 1) * int_of(digits_of(t))),
         FromInt(10^fraction_digits(t)))

\* line 104: x, y = point.split(','), xs.append(float(x)), ys.append(float(y))
point_ok(parts) == Len(parts) = 2 /\ is_float(parts[1]) /\ is_float(parts[2])

parse_points(pts) ==
    IF \E i \in 1..Len(pts) : ~point_ok(split(pts[i], ","))
    THEN Err("ArgumentTypeError")
    ELSE Ok([xs |-> [i \in 1..Len(pts) |-> float_of(split(pts[i], ",")[1])],
             ys |-> [i \in 1..Len(pts) |-> float_of(split(pts[i], ",")[2])]])

list_of_points(v) == parse_points(split(v, ";"))

MaxPoints == 5

MaxChars == 5

PointChars == {"2", ".", "-", ",", ";", "x"}

CliInit ==
    /\ \/ /\ cli_pc = "scatter"
          /\ points \in UNION {[1..k -> 1..MaxPoints] : k \in 0..MaxPoints}
          /\ value = None
       \/ /\ cli_pc = "list_of_points"
          /\ points = None
          /\ value \in UNION {[1..k -> PointChars] : k \in 0..MaxChars}
    /\ plotted = None /\ parsed = None
    /\ GraphIdle /\ BrewIdle /\ HexIdle

Scatter ==
    /\ cli_pc = "scatter"
    /\ plotted' = scatter(points)
    /\ cli_pc' = "scattered"
    /\ UNCHANGED <<points, value, parsed, graph_vars, brew_vars, hex_vars>>

ListOfPoints ==
    /\ cli_pc = "list_of_points"
    /\ parsed' = list_of_points(value)
    /\ cli_pc' = "parsed"
    /\ UNCHANGED <<points, value, plotted, graph_vars, brew_vars, hex_vars>>

CliNext == Scatter \/ ListOfPoints

SpecCli == CliInit /\ [][CliNext]_vars

(***************************************************************************)
(* Properties of create_graph.                                              *)
(***************************************************************************)
buf == fp.buf

Stmts == {i \in DOMAIN buf : buf[i].kind \in {"node", "edge"}}

NodeAt(p) == {i \in Stmts : buf[i].kind = "node" /\ buf[i].at = p}

EdgeAt(p, sd) ==
    {i \in Stmts : buf[i].kind = "edge" /\ buf[i].at = p /\ buf[i].side = sd}

IsPrefix(p, q) == Len(p) <= Len(q) /\ SubSeq(q, 1, Len(p)) = p

\* the statements written for the nodes of the subtree at position r
StmtsUnder(r) == {i \in Stmts : IsPrefix(r, buf[i].at)}

\* the positions create is called for: those below no leaf
Visited ==
    {p \in DOMAIN tree : \A k \in 0..(Len(p) - 1) : ~tree[SubSeq(p, 1, k)].is_leaf}

HasChild(p, sd) == Append(p, sd) \in DOMAIN tree

\* the class of greatest count, the first in insertion order among equals
Majority(counts) ==
    counts[CHOOSE i \in DOMAIN counts :
              /\ \A j \in DOMAIN counts : counts[j][2] <= counts[i][2]
              /\ \A j \in 1..(i - 1) : counts[j][2] # counts[i][2]]

Total(counts) == IF counts = <<>> THEN 0 ELSE sum_values(counts)

InTable(i, table) == 0 <= i /\ i < Len(table)

\* a node whose lookups all succeed with indices in 0..len-1, and whose
\* feature name utf-8 can encode
Regular(nd) ==
    IF nd.is_leaf THEN InTable(nd.value, class_names)
    ELSE /\ InTable(nd.feature, feature_names)
         /\ \A i \in DOMAIN feature_names[nd.feature + 1] :
               feature_names[nd.feature + 1][i] # surrogate
         /\ Total(nd.counts) > 0
         /\ InTable(Majority(nd.counts)[1], class_names)

Failed(exc) == outcome.kind = "raise" /\ outcome.exc = exc

\* C1: for every well-formed tree, with and without an output path, and
\* unless opening or writing the file fails, the call returns the complete
\* document (header, statements, closing brace), and with a path the file
\* holds the same text.
C1_AlwaysReturnsText ==
    (pc = "done" /\ (\A p \in DOMAIN tree : Regular(tree[p])) /\ ~Failed("OSError"))
    => /\ outcome.kind = "return"
       /\ outcome.value = document(buf)
       /\ buf[Len(buf)].kind = "brace"
       /\ opened_file => fs.content = outcome.value

\* C2: a file the call opened is closed in every final state, whether the
\* call returned or raised; a stream of kind "file" exists only when
\* opened_file is set; when open fails nothing is closed and OSError is what
\* the call raises.
C2_FileClosed ==
    /\ fp.kind = "file" <=> opened_file = TRUE
    /\ pc = "done" /\ opened_file => fp.closed
    /\ pc = "done" /\ ~opened_file /\ fp.kind = "unbound"
       => ~fp.closed /\ Failed("OSError") /\ fs \in FsStates

\* a call with a path whose traversal raised IndexError, after which the file
\* is closed
C2_Witness ==
    pc = "done" /\ opened_file /\ Failed("IndexError") /\ fp.closed

\* C3: a node statement precedes every statement of its subtrees and its own
\* edges; the "yes" edge of a node follows all statements of its left subtree
\* and precedes all statements of its right subtree; the "no" edge follows
\* all statements of the right subtree and the "yes" edge; an edge follows
\* the node statements of both its endpoints.
C3_PreOrder ==
    \A i \in Stmts :
        LET p == buf[i].at IN
        IF buf[i].kind = "node"
        THEN \A j \in (StmtsUnder(p) \ {i}) : i < j
        ELSE /\ \E j \in NodeAt(p) : j < i
             /\ \E j \in NodeAt(Append(p, buf[i].side)) : j < i
             /\ \A j \in StmtsUnder(Append(p, buf[i].side)) : j < i
             /\ IF buf[i].side = "L"
                THEN /\ buf[i].label = yes
                     /\ \A j \in StmtsUnder(Append(p, "R")) \cup EdgeAt(p, "R") : i < j
                ELSE /\ buf[i].label = no
                     /\ \A j \in StmtsUnder(Append(p, "L")) \cup EdgeAt(p, "L") : j < i

\* the traversal of a tree whose root has both children is over: both edges
\* of the root are written
C3_Witness ==
    pc = "brace" /\ EdgeAt(<<>>, "L") # {} /\ EdgeAt(<<>>, "R") # {}

\* C4: at any time a statement is written at most once, node statements only
\* for visited nodes, edges only from visited internal nodes to a child that
\* is present, "yes" to the left and "no" to the right, between the IDs of
\* the two node statements.  When the traversal is over, every visited node
\* has its node statement, every present child of a visited internal node
\* its edge, so there are as many node statements as visited nodes and one
\* edge fewer.
C4_Edges ==
    /\ \A i \in Stmts :
          LET p == buf[i].at IN
          /\ p \in Visited
          /\ buf[i].kind = "node" => NodeAt(p) = {i}
          /\ buf[i].kind = "edge" =>
                /\ ~tree[p].is_leaf
                /\ HasChild(p, buf[i].side)
                /\ EdgeAt(p, buf[i].side) = {i}
                /\ buf[i].label = (IF buf[i].side = "L" THEN yes ELSE no)
                /\ \A j \in NodeAt(p) : buf[i].src = buf[j].uid
                /\ \A j \in NodeAt(Append(p, buf[i].side)) : buf[i].dst = buf[j].uid
    /\ pc = "brace" =>
          /\ \A p \in Visited :
                /\ Cardinality(NodeAt(p)) = 1
                /\ \A sd \in {"L", "R"} :
                      Cardinality(EdgeAt(p, sd))
                          = IF ~tree[p].is_leaf /\ HasChild(p, sd) THEN 1 ELSE 0
          /\ Cardinality({i \in Stmts : buf[i].kind = "node"}) = Cardinality(Visited)
          /\ Cardinality({i \in Stmts : buf[i].kind = "edge"}) = Cardinality(Visited) - 1
          /\ tree[<<>>].is_leaf => Cardinality(Stmts) = 1

\* the traversal of a tree whose internal root has a right child only is
\* over: a "no" edge and no "yes" edge
C4_Witness ==
    /\ pc = "brace" /\ ~tree[<<>>].is_leaf
    /\ HasChild(<<>>, "R") /\ ~HasChild(<<>>, "L")
    /\ EdgeAt(<<>>, "R") # {} /\ EdgeAt(<<>>, "L") = {}

\* the entry list[i] of a list that has one: a negative i counts from the end
Entry(list, i) == list[(i % Len(list)) + 1]

\* an index no list of that length has an entry for
Far(i, list) == i >= Len(list) \/ i < 0 - Len(list)

\* the start of the line of a label that carries the feature name
NameLine(nd) == Entry(feature_names, nd.feature) \o le_infix

\* a node one of whose lookups has an index no table entry answers to; the
\* lookups are those the code reaches: no class is looked up when the feature
\* lookup has failed or there is no majority class
FarNode(nd) ==
    IF nd.is_leaf THEN Far(nd.value, class_names)
    ELSE \/ Far(nd.feature, feature_names)
         \/ nd.counts # <<>> /\ Far(Majority(nd.counts)[1], class_names)

\* C5 as stated: a node statement is written only for a node whose indices
\* all lie in 0..len(table)-1; any other index, negative ones included, is
\* fatal at that node.
C5_OnlyInRangeEmitted ==
    \A i \in Stmts : buf[i].kind = "node" =>
        LET nd == tree[buf[i].at] IN
        IF nd.is_leaf THEN InTable(nd.value, class_names)
        ELSE /\ InTable(nd.feature, feature_names)
             /\ InTable(Majority(nd.counts)[1], class_names)

hex_value(ch) == (CHOOSE k \in DOMAIN hex_codes : hex_codes[k] = ch) - 1

\* the channels a color text "#rrggbb" or "#rrggbbaa" stands for
Decode(text) ==
    [k \in 1..((Len(text) - 1) \div 2) |->
        16 * hex_value(text[2 * k]) + hex_value(text[2 * k + 1])]

\* C5, amended: an index i into a table of length L is fatal exactly when
\* i >= L or i < -L.  A node statement is written only for nodes without
\* such an index, and for -L <= i < 0 it carries the label and the color of
\* entry L + i.  A traversal never gets past a node with a fatal index: the
\* call raises IndexError there and writes no statement for it, and
\* IndexError is raised nowhere else; only a close that fails in the finally
\* clause puts OSError in its place.
C5_Lookups ==
    /\ \A i \in Stmts : buf[i].kind = "node" =>
          LET nd == tree[buf[i].at] IN
          /\ ~FarNode(nd)
          /\ IF nd.is_leaf
             THEN /\ buf[i].label = Entry(class_names, nd.value)
                  /\ Decode(buf[i].fillcolor) = Entry(colors, nd.value)
             ELSE /\ IsPrefix(NameLine(nd), split(buf[i].label, "\n")[4])
                  /\ SubSeq(Decode(buf[i].fillcolor), 1, 3)
                        = Entry(colors, Majority(nd.counts)[1])
    /\ \A p \in Visited : FarNode(tree[p]) => NodeAt(p) = {} /\ pc # "brace"
    /\ (stack # <<>> /\ top.pc = "enter" /\ pc \in {"finally", "done"}
            /\ FarNode(tree[top.node]))
       => /\ NodeAt(top.node) = {}
          /\ \/ Failed("IndexError")
             \/ pc = "done" /\ opened_file /\ Failed("OSError")
    /\ Failed("IndexError")
       => stack # <<>> /\ top.pc = "enter" /\ FarNode(tree[top.node])

\* a statement was written for a node with a negative index
C5_Witness ==
    \E i \in Stmts :
        /\ buf[i].kind = "node"
        /\ LET nd == tree[buf[i].at] IN
           \/ nd.is_leaf /\ nd.value < 0
           \/ ~nd.is_leaf /\ nd.feature < 0
           \/ ~nd.is_leaf /\ Majority(nd.counts)[1] < 0

\* the hundredths a text "d.dd" stands for
Hundredths(t) == 100 * int_of(SubSeq(t, 1, Len(t) - 3)) + int_of(SubSeq(t, Len(t) - 1, Len(t)))

\* the ratio line of an internal node's label, without its prefix
RatioText(label) ==
    LET line == split(label, "\n")[3]
    IN  SubSeq(line, Len(ratio_prefix) + 1, Len(line))

\* C7: a leaf's fill color has the three channels of the palette color of
\* its class and no alpha; an internal node's fill color has the three
\* channels of the palette color of its majority class, then
\* alpha = floor(255 * majority_count / total_count) in 0..255, and the ratio
\* line of its label shows majority_count / total_count of that same class
\* to two decimals; no step after the palette is built changes it, and a
\* leaf written after an internal node of the same class has the palette's
\* three channels.
C7_Always ==
    \A i \in Stmts : buf[i].kind = "node" =>
        LET nd == tree[buf[i].at]
            c  == buf[i].fillcolor
        IN  IF nd.is_leaf
            THEN /\ Len(c) = 7
                 /\ Decode(c) = Entry(colors, nd.value)
                 /\ \A k \in 1..3 : Decode(c)[k] \in 0..255
            ELSE LET mj == Majority(nd.counts)
                     total == Total(nd.counts)
                 IN  /\ total > 0
                     /\ Len(c) = 9
                     /\ SubSeq(Decode(c), 1, 3) = Entry(colors, mj[1])
                     /\ Decode(c)[4] = (255 * mj[2]) \div total
                     /\ Decode(c)[4] \in 0..255
                     /\ SubSeq(buf[i].label, 1, Len(samples_prefix)) = samples_prefix
                     /\ 2 * (100 * mj[2] - Hundredths(RatioText(buf[i].label)) * total) <= total
                     /\ 2 * (Hundredths(RatioText(buf[i].label)) * total - 100 * mj[2]) <= total

C7_PaletteKept == pc # "setup" => colors' = colors

C7_FillColor == [](C7_Always) /\ [][C7_PaletteKept]_vars

\* an internal node's statement is followed by the statement of a leaf of
\* its majority class
C7_Witness ==
    \E i, j \in Stmts :
        /\ i < j /\ buf[i].kind = "node" /\ buf[j].kind = "node"
        /\ ~tree[buf[i].at].is_leaf /\ tree[buf[j].at].is_leaf
        /\ Majority(tree[buf[i].at].counts)[1] = tree[buf[j].at].value
        /\ Len(buf[i].fillcolor) = 9 /\ Len(buf[j].fillcolor) = 7

\* C10 as stated: a call with a path that fails on a lookup during the
\* traversal leaves the path as it was before the call, neither created nor
\* truncated nor partially written.
C10_FailureLeavesPath ==
    (pc = "done" /\ output_file # None /\ Failed("IndexError")) => fs \in FsStates

\* C10, amended: the path is as it was until open is reached; open, which
\* precedes the traversal, creates or truncates it, so that from then on the
\* path exists and its former content is gone; when the call is over and
\* did not raise OSError, the file it opened holds exactly what was written
\* before the call returned or raised, the header and the statements of the
\* nodes before a failure included; after OSError it holds that or a part
\* of it, from its start.
C10_OpenedFirst ==
    /\ pc \in {"setup", "open"} => fs \in FsStates /\ ~opened_file
    /\ opened_file => fs.exists /\ fs \notin FsStates
    /\ opened_file /\ pc = "done" /\ ~Failed("OSError") => fs.content = document(buf)
    /\ opened_file /\ pc = "done" => IsPrefix(fs.content, document(buf))
    /\ pc = "done" /\ opened_file /\ Failed("IndexError")
       => /\ Len(buf) >= 2
          /\ buf[1].kind = "digraph" /\ buf[2].kind = "style"
          /\ buf[Len(buf)].kind # "brace"

\* a call with a path failed on a lookup below the root: the file holds the
\* header and the root's statement
C10_Witness ==
    /\ pc = "done" /\ opened_file /\ Failed("IndexError")
    /\ Len(buf) >= 3 /\ fs.content = document(buf) /\ fs.content # <<>>

(***************************************************************************)
(* Properties of _color_brew, to_hexadecimal and the CLI wrappers.          *)
(***************************************************************************)
\* C6: _color_brew(n) returns exactly n colors of three channels in 0..255;
\* the i-th hue (i from 0) is the integer part of 25 + i * 360 / n, and its
\* segment floor(h / 60) is one of the seven of the table, so that the call
\* never fails on a lookup.
C6_ExactlyN ==
    /\ brew_pc # "IndexError"
    /\ brew_pc = "done" =>
          /\ Len(color_list) = n
          /\ \A i \in 1..Len(color_list) :
                /\ Len(color_list[i]) = 3
                /\ \A k \in 1..3 : color_list[i][k] \in 0..255
          /\ \A i \in 1..Len(hues) :
                /\ hues[i] = (25 * n + 360 * (i - 1)) \div n
                /\ hues[i] \div 60 \in 0..6

lowercase_hex ==
    {"0", "1", "2", "3", "4", "5", "6", "7", "8", "9", "a", "b", "c", "d", "e", "f"}

InRange(vs) == \A j \in 1..Len(vs) : vs[j] \in 0..255

\* C8: for k channels in 0..255 the result is "#" and then, channel by
\* channel, two lowercase hexadecimal digits, the one of c div 16 before the
\* one of c mod 16: 1 + 2k characters; decoding the pairs gives the
\* channels back, and a sequence that differs in one channel has another
\* text, as have any two single channels;
\* [0,0,0] gives "#000000", [255,255,255] gives "#ffffff", and a final
\* channel 128 ends the text with "80".
C8_HexText ==
    (hex_pc = "done" /\ InRange(values)) =>
        /\ hex_result.ok
        /\ LET text == hex_result.v
               k    == Len(values)
           IN  /\ Len(text) = 1 + 2 * k
               /\ text[1] = "#"
               /\ \A j \in 1..k :
                     /\ text[2 * j] \in lowercase_hex
                     /\ text[2 * j + 1] \in lowercase_hex
                     /\ hex_value(text[2 * j]) = values[j] \div 16
                     /\ hex_value(text[2 * j + 1]) = values[j] % 16
               /\ Decode(text) = values
               /\ \A j \in 1..k : \A c \in HexSamples :
                     c # values[j]
                     => to_hexadecimal([values EXCEPT ![j] = c]).v # text
               /\ k = 1 => \A c \in 0..255 :
                     c # values[1] => to_hexadecimal(<<c>>).v # text
               /\ values = <<0, 0, 0>>
                     => text = <<"#", "0", "0", "0", "0", "0", "0">>
               /\ values = <<255, 255, 255>>
                     => text = <<"#", "f", "f", "f", "f", "f", "f">>
               /\ (k = 4 /\ values[4] = 128)
                     => SubSeq(text, 8, 9) = <<"8", "0">>

\* to_hexadecimal([255, 255, 255, 128]) has returned "#ffffff80"
C8_Witness ==
    /\ hex_pc = "done" /\ values = <<255, 255, 255, 128>>
    /\ hex_result.ok
    /\ hex_result.v = <<"#", "f", "f", "f", "f", "f", "f", "8", "0">>

digit_chars == {"0", "1", "2", "3", "4", "5", "6", "7", "8", "9"}

\* reading a number one character on: nothing read yet (start), a sign
\* (sign), digits (int), a point and no digit yet (point), digits and a
\* point (frac); anything else is no number (junk)
number_step(st, ch) ==
    IF ch \in digit_chars
    THEN (IF st \in {"start", "sign", "int"} THEN "int"
          ELSE IF st \in {"point", "frac"} THEN "frac" ELSE "junk")
    ELSE IF ch \in {"-", "+"} THEN (IF st = "start" THEN "sign" ELSE "junk")
    ELSE IF ch = "." THEN (IF st \in {"start", "sign"} THEN "point"
                           ELSE IF st = "int" THEN "frac" ELSE "junk")
    ELSE "junk"

is_number(st) == st \in {"int", "frac"}

RECURSIVE reads_points(_, _, _, _)
\* whether v from its i-th character on completes a text
\* number,number;...;number,number when the number being read is in state st
\* and is a first (comp = 1) or a second (comp = 2) component
reads_points(v, i, st, comp) ==
    IF i > Len(v) THEN is_number(st) /\ comp = 2
    ELSE IF v[i] = "," THEN is_number(st) /\ comp = 1 /\ reads_points(v, i + 1, "start", 2)
    ELSE IF v[i] = ";" THEN is_number(st) /\ comp = 2 /\ reads_points(v, i + 1, "start", 1)
    ELSE reads_points(v, i + 1, number_step(st, v[i]), comp)

\* C9: scatter hands over xs and ys of length floor(k / 2) each, the i-th
\* pair being the values 2i and 2i + 1 of the k given (counted from 0), so
\* that of an odd number exactly the last is dropped; list_of_points accepts
\* a text exactly when each of its points has two numeric components,
\* returns as many xs as ys, one per point, and otherwise raises
\* ArgumentTypeError.
C9_Pairing ==
    /\ cli_pc = "scattered" =>
          /\ Len(plotted.xs) = Len(points) \div 2
          /\ Len(plotted.ys) = Len(points) \div 2
          /\ \A i \in 0..((Len(points) \div 2) - 1) :
                /\ plotted.xs[i + 1] = points[2 * i + 1]
                /\ plotted.ys[i + 1] = points[2 * i + 2]
    /\ cli_pc = "parsed" =>
          /\ parsed.ok <=> reads_points(value, 1, "start", 1)
          /\ parsed.ok =>
                /\ Len(parsed.v.xs) = Len(parsed.v.ys)
                /\ Len(parsed.v.xs) = 1 + Cardinality({i \in 1..Len(value) : value[i] = ";"})
          /\ ~parsed.ok => parsed.exc = "ArgumentTypeError"

\* scatter was given an odd number of values, at least three
C9_Witness ==
    /\ cli_pc = "scattered" /\ Len(points) % 2 = 1 /\ Len(points) >= 3
    /\ Len(plotted.xs) = (Len(points) - 1) \div 2
    /\ plotted.ys[Len(plotted.ys)] = points[Len(points) - 1]

====
